---- MODULE Spec2Model ----
(***************************************************************************)
(* Model of the invoicing program src/main.py: the tax arithmetic          *)
(* (calcular_base_imponible, calcular_igv, the totals loop of              *)
(* generar_factura) and the invoice lifecycle driven by the handlers of    *)
(* main() over st.session_state, the snapshot file facturas.json and the   *)
(* artifact directory.                                                     *)
(*                                                                         *)
(* Money is counted in centimos (integers), so Decimal arithmetic is       *)
(* exact.  Python list objects are modelled as references into `listas`,   *)
(* because the Editar handler binds the draft to the very list object of   *)
(* the stored record.  None is written 0 for factura_editando and          *)
(* producto_editando (list positions are 1-based here).                    *)
(* The fields fecha_emision, fecha_vencimiento and notas of a record are   *)
(* copied from the widgets exactly as cliente is and are not modelled;     *)
(* cliente_actual and remitente only preset widgets, the client name of a  *)
(* finalize is whatever the text field holds, an input of the action.      *)
(***************************************************************************)
EXTENDS Integers, Sequences, FiniteSets, TLC

\* ------------------------------------------------------------------ bounds
MaxFacturas == 2
MaxId == 3
MaxProductos == 1
MaxReloj == 0
MaxFallos == 1
MaxCentimos == 600
MaxLineas == 3

\* --------------------------------------------------------------- constants
IGV_RATE == 18

Clientes == {"Acme", "Beta"}
Descuentos == {0}
ItemA == <<"Consultoria", 2, 10000>>
ItemB == <<"Soporte", 1, 150>>
ItemMalo == <<"", 1, 100>>
ItemsEntrada == {ItemA, ItemB, ItemMalo}

VARIABLES
    facturas,           \* st.session_state['facturas']: records, productos is a reference
    listas,             \* the list objects the session holds: reference -> items
    productos,          \* st.session_state['productos']: reference of the draft list
    factura_editando,   \* st.session_state['factura_editando'], 0 for None
    producto_editando,  \* st.session_state['producto_editando'], 0 for None
    disk,               \* facturas.json: [recs, completo]
    archivos,           \* the PDF files present under FACTURAS_DIR
    reloj,              \* int(time.time())
    fallos,             \* how many times guardar_facturas has failed
    ultima,             \* the last handler run and how it ended
    t_pc, t_total, t_base, t_igv,                           \* tax round trip
    g_pc, g_productos, g_descuento, g_i, g_subtotal, g_igv, g_total,  \* totals of generar_factura
    m_pc, m_i, m_cantidad, m_precio, m_subtotal, m_igv, m_total       \* totals main() shows for the draft

appvars == <<facturas, listas, productos, factura_editando, producto_editando,
             disk, archivos, reloj, fallos, ultima>>
taxvars == <<t_pc, t_total, t_base, t_igv>>
genvars == <<g_pc, g_productos, g_descuento, g_i, g_subtotal, g_igv, g_total>>
mosvars == <<m_pc, m_i, m_cantidad, m_precio, m_subtotal, m_igv, m_total>>
vars == <<appvars, taxvars, genvars, mosvars>>

\* -------------------------------------------------------- Tax/Money engine
\* Decimal.quantize(Decimal('0.01'), ROUND_HALF_UP) of the exact quotient num/den
\* (den > 0), in centimos: half away from zero.
RoundDown(num, den) ==
    IF num >= 0 THEN num \div den ELSE -((-num) \div den)

RoundHalfUp(num, den) ==
    IF num >= 0 THEN (2 * num + den) \div (2 * den)
    ELSE -((2 * (-num) + den) \div (2 * den))

\* total / (1 + IGV_RATE), both sides in centimos
calcular_base_imponible(total) == RoundHalfUp(total * 100, 100 + IGV_RATE)

\* base_imponible * IGV_RATE
calcular_igv(base_imponible) == RoundHalfUp(base_imponible * IGV_RATE, 100)

validar_producto(item) == item[1] # "" /\ item[2] >= 1 /\ item[3] > 0

\* ------------------------------------------------------------ Invoice store
Refs == 0 .. MaxFacturas

Ids(fs) == {fs[k].id : k \in 1 .. Len(fs)}

MaxDe(S) == CHOOSE m \in S : \A x \in S : x <= m

\* a wrong numbering: the count of records plus one
siguiente_por_cuenta(fs) == Len(fs) + 1

obtener_siguiente_id(fs) ==
    IF fs = <<>> THEN 1 ELSE MaxDe(Ids(fs)) + 1

\* a record as json.dump writes it: the list object replaced by its content
Valor(f, ls) ==
    [id |-> f.id, cliente |-> f.cliente, archivo |-> f.archivo,
     productos |-> ls[f.productos], descuento |-> f.descuento]

Valores(fs, ls) == [k \in 1 .. Len(fs) |-> Valor(fs[k], ls)]

\* cargar_facturas: the parsed content, or [] for an absent, empty or malformed file
cargar_facturas(d) == IF d.completo THEN d.recs ELSE <<>>

\* json.loads builds one fresh list object per record
FacturasCargadas(d) ==
    [k \in 1 .. Len(cargar_facturas(d)) |->
        [id |-> cargar_facturas(d)[k].id, cliente |-> cargar_facturas(d)[k].cliente,
         archivo |-> cargar_facturas(d)[k].archivo, productos |-> k,
         descuento |-> cargar_facturas(d)[k].descuento]]

ListasCargadas(d) ==
    [r \in Refs |-> IF r \in 1 .. Len(cargar_facturas(d))
                    THEN cargar_facturas(d)[r].productos ELSE <<>>]

\* list objects no longer referenced by the session are dropped
Vivas(ls, fs, p) ==
    [r \in Refs |-> IF r = p \/ \E k \in 1 .. Len(fs) : fs[k].productos = r
                    THEN ls[r] ELSE <<>>]

\* guardar_facturas: open(..., "w") truncates the file, json.dump then writes it
\* piece by piece; res is how the call ends, k the records written before a failure
guardar_facturas(fs, ls, d, res, k) ==
    CASE res = "ok" -> [recs |-> Valores(fs, ls), completo |-> TRUE]
      [] res = "abrir" -> d
      [] res = "escribir" -> [recs |-> SubSeq(Valores(fs, ls), 1, k), completo |-> FALSE]

Guardados(fs) ==
    {<<"ok", 0>>, <<"abrir", 0>>} \cup {<<"escribir", k>> : k \in 0 .. (IF fs = <<>> THEN 0 ELSE Len(fs) - 1)}

\* a filter that drops no record
SinQuitar(fs, i) == fs

SinId(fs, i) == SelectSeq(fs, LAMBDA f : f.id # i)

\* the first run of main() in a session: lines 353-362
InicioSesion(d) ==
    /\ facturas' = FacturasCargadas(d)
    /\ listas' = ListasCargadas(d)
    /\ productos' = 0
    /\ factura_editando' = 0
    /\ producto_editando' = 0

\* nueva_factura(): session_state.clear(), the defaults, st.rerun(); the rerun
\* finds no 'facturas' in the session and loads the file again
nueva_factura(d) == InicioSesion(d)

Borrador == listas[productos]

\* the subtotal main() shows under the product list: the loop variables precio and
\* cantidad are read after the loop, so it is the base of the last item
SubtotalMostrado(items) ==
    calcular_base_imponible(items[Len(items)][3] * items[Len(items)][2])

Hecho(accion, id, resultado) == [accion |-> accion, id |-> id, resultado |-> resultado]

SesionIgual == UNCHANGED <<facturas, listas, productos, factura_editando, producto_editando>>

CalculoIgual == UNCHANGED <<taxvars, genvars, mosvars>>

\* ------------------------------------------------------------ draft handlers
\* the form "Añadir artículo"
AnadirArticulo(item) ==
    /\ Len(Borrador) < MaxProductos
    /\ IF validar_producto(item)
       THEN /\ listas' = [listas EXCEPT ![productos] = Append(@, item)]
            /\ ultima' = Hecho("anadir", 0, "ok")
       ELSE /\ listas' = listas
            /\ ultima' = Hecho("anadir", 0, "error_validacion")
    /\ UNCHANGED <<facturas, productos, factura_editando, producto_editando,
                   disk, archivos, reloj, fallos, taxvars, genvars, mosvars>>

\* the pencil button of row i
MarcarProducto(i) ==
    /\ i \in 1 .. Len(Borrador)
    /\ producto_editando # i
    /\ producto_editando' = i
    /\ ultima' = Hecho("marcar", 0, "ok")
    /\ UNCHANGED <<facturas, listas, productos, factura_editando, disk, archivos, reloj, fallos, taxvars, genvars, mosvars>>

\* the cross button of the row being edited
CancelarProducto ==
    /\ producto_editando \in 1 .. Len(Borrador)
    /\ producto_editando' = 0
    /\ ultima' = Hecho("cancelar", 0, "ok")
    /\ UNCHANGED <<facturas, listas, productos, factura_editando, disk, archivos, reloj, fallos, taxvars, genvars, mosvars>>

\* the save button of the row being edited
editar_producto(item) ==
    /\ producto_editando \in 1 .. Len(Borrador)
    /\ IF validar_producto(item)
       THEN /\ listas' = [listas EXCEPT ![productos][producto_editando] = item]
            /\ producto_editando' = 0
            /\ ultima' = Hecho("editar_producto", 0, "ok")
       ELSE /\ UNCHANGED <<listas, producto_editando>>
            /\ ultima' = Hecho("editar_producto", 0, "error_validacion")
    /\ UNCHANGED <<facturas, productos, factura_editando, disk, archivos, reloj, fallos, taxvars, genvars, mosvars>>

Quitar(s, i) == SubSeq(s, 1, i - 1) \o SubSeq(s, i + 1, Len(s))

\* the bin button of a row that is not being edited
eliminar_producto(i) ==
    /\ i \in 1 .. Len(Borrador)
    /\ producto_editando # i
    /\ listas' = [listas EXCEPT ![productos] = Quitar(@, i)]
    /\ ultima' = Hecho("eliminar_producto", 0, "ok")
    /\ UNCHANGED <<facturas, productos, factura_editando, producto_editando,
                   disk, archivos, reloj, fallos, taxvars, genvars, mosvars>>

\* ---------------------------------------------------------- invoice handlers
FacturaId == IF factura_editando # 0 THEN factura_editando
             ELSE obtener_siguiente_id(facturas)

\* lines 549-555: drop the record being edited, then append the new one
FacturasTrasGenerar(fs, editando, nueva) ==
    Append(IF editando # 0 THEN SinId(fs, nueva.id) ELSE fs, nueva)

\* a handler that appends and saves first and renders afterwards
GenerarFacturaGuardaAntes(cliente, descuento, t, pdf, g) ==
    LET pdf_path == <<FacturaId, t>>
        nueva == [id |-> FacturaId, cliente |-> cliente, archivo |-> pdf_path,
                  productos |-> productos, descuento |-> descuento]
        fs1 == FacturasTrasGenerar(facturas, factura_editando, nueva)
    IN  /\ Borrador # <<>>
        /\ descuento <= SubtotalMostrado(Borrador)
        /\ FacturaId <= MaxId
        /\ Len(fs1) <= MaxFacturas
        /\ g \in Guardados(fs1)
        /\ reloj' = t
        /\ CalculoIgual
        /\ disk' = guardar_facturas(fs1, listas, disk, g[1], g[2])
        /\ fallos' = IF g[1] = "ok" THEN fallos ELSE fallos + 1
        /\ fallos' <= MaxFallos
        /\ archivos' = IF pdf THEN archivos \cup {pdf_path} ELSE archivos
        /\ IF g[1] = "ok" /\ pdf
           THEN /\ nueva_factura(disk')
                /\ ultima' = Hecho("generar", FacturaId, "ok")
           ELSE /\ facturas' = fs1
                /\ listas' = Vivas(listas, fs1, productos)
                /\ UNCHANGED <<productos, factura_editando, producto_editando>>
                /\ ultima' = Hecho("generar", FacturaId,
                                   IF g[1] = "ok" THEN "error_pdf" ELSE "error_guardar")

\* the button "Generar Factura": t is the clock read by generar_factura, pdf
\* whether it writes the PDF, g how guardar_facturas ends
GenerarFactura(cliente, descuento, t, pdf, g) ==
    LET pdf_path == <<FacturaId, t>>
        nueva == [id |-> FacturaId, cliente |-> cliente, archivo |-> pdf_path,
                  productos |-> productos, descuento |-> descuento]
        fs1 == FacturasTrasGenerar(facturas, factura_editando, nueva)
    IN  /\ Borrador # <<>>
        /\ descuento <= SubtotalMostrado(Borrador)
        /\ FacturaId <= MaxId
        /\ Len(fs1) <= MaxFacturas
        /\ g \in Guardados(fs1)
        /\ reloj' = t
        /\ CalculoIgual
        /\ IF ~pdf
           THEN /\ ultima' = Hecho("generar", FacturaId, "error_pdf")
                /\ SesionIgual
                /\ UNCHANGED <<disk, archivos, fallos>>
           ELSE /\ archivos' = archivos \cup {pdf_path}
                /\ fallos' = IF g[1] = "ok" THEN fallos ELSE fallos + 1
                /\ fallos' <= MaxFallos
                /\ disk' = guardar_facturas(fs1, listas, disk, g[1], g[2])
                /\ IF g[1] = "ok"
                   THEN /\ nueva_factura(disk')
                        /\ ultima' = Hecho("generar", FacturaId, "ok")
                   ELSE /\ facturas' = fs1
                        /\ listas' = Vivas(listas, fs1, productos)
                        /\ UNCHANGED <<productos, factura_editando, producto_editando>>
                        /\ ultima' = Hecho("generar", FacturaId, "error_guardar")

\* the button "Editar" of the stored invoice at position k
EditarFactura(k) ==
    /\ k \in 1 .. Len(facturas)
    /\ productos' = facturas[k].productos
    /\ factura_editando' = facturas[k].id
    /\ listas' = Vivas(listas, facturas, facturas[k].productos)
    /\ ultima' = Hecho("editar", facturas[k].id, "ok")
    /\ UNCHANGED <<facturas, producto_editando, disk, archivos, reloj, fallos, taxvars, genvars, mosvars>>

\* a handler that writes the snapshot before it drops the record
EliminarFacturaGuardaAntes(k, rm_falla, g) ==
    /\ k \in 1 .. Len(facturas)
    /\ ~rm_falla
    /\ LET fs1 == SinId(facturas, facturas[k].id)
       IN  /\ archivos' = archivos \ {facturas[k].archivo}
           /\ facturas' = fs1
           /\ listas' = Vivas(listas, fs1, productos)
           /\ disk' = guardar_facturas(facturas, listas, disk, g[1], g[2])
           /\ fallos' = IF g[1] = "ok" THEN fallos ELSE fallos + 1
           /\ fallos' <= MaxFallos
           /\ ultima' = Hecho("eliminar", facturas[k].id,
                              IF g[1] = "ok" THEN "ok" ELSE "error_guardar")
    /\ UNCHANGED <<productos, factura_editando, producto_editando, reloj, taxvars, genvars, mosvars>>

\* the button "Eliminar" of the stored invoice at position k: rm_falla is whether
\* os.remove raises on an artifact that exists, g how guardar_facturas ends
EliminarFactura(k, rm_falla, g) ==
    /\ k \in 1 .. Len(facturas)
    /\ IF facturas[k].archivo \in archivos /\ rm_falla
       THEN /\ ultima' = Hecho("eliminar", facturas[k].id, "error_borrar")
            /\ SesionIgual
            /\ UNCHANGED <<disk, archivos, fallos>>
       ELSE LET fs1 == SinId(facturas, facturas[k].id)
            IN  /\ archivos' = archivos \ {facturas[k].archivo}
                /\ facturas' = fs1
                /\ listas' = Vivas(listas, fs1, productos)
                /\ disk' = guardar_facturas(fs1, listas, disk, g[1], g[2])
                /\ fallos' = IF g[1] = "ok" THEN fallos ELSE fallos + 1
                /\ fallos' <= MaxFallos
                /\ ultima' = Hecho("eliminar", facturas[k].id,
                                   IF g[1] = "ok" THEN "ok" ELSE "error_guardar")
                /\ UNCHANGED <<productos, factura_editando, producto_editando>>
    /\ UNCHANGED <<reloj, taxvars, genvars, mosvars>>

\* the button "Nueva Factura"
NuevaFactura ==
    /\ nueva_factura(disk)
    /\ ultima' = Hecho("nueva", 0, "ok")
    /\ UNCHANGED <<disk, archivos, reloj, fallos, taxvars, genvars, mosvars>>

\* ------------------------------------------------------------ specification
Guardada(id, cliente, items) ==
    [id |-> id, cliente |-> cliente, archivo |-> <<id, 0>>,
     productos |-> items, descuento |-> 0]

\* snapshots an earlier run can have left: none, or two invoices out of order
StoresIniciales ==
    {<<>>, <<Guardada(3, "Acme", <<ItemA>>), Guardada(1, "Beta", <<ItemB>>)>>}

TaxIdle == t_pc = "idle" /\ t_total = 0 /\ t_base = 0 /\ t_igv = 0

GenIdle == /\ g_pc = "idle" /\ g_productos = <<>> /\ g_descuento = 0 /\ g_i = 0
           /\ g_subtotal = 0 /\ g_igv = 0 /\ g_total = 0

MosIdle == /\ m_pc = "idle" /\ m_i = 0 /\ m_cantidad = 0 /\ m_precio = 0
           /\ m_subtotal = 0 /\ m_igv = 0 /\ m_total = 0

Init ==
    /\ disk \in {[recs |-> s, completo |-> TRUE] : s \in StoresIniciales}
    /\ facturas = FacturasCargadas(disk)
    /\ listas = ListasCargadas(disk)
    /\ productos = 0
    /\ factura_editando = 0
    /\ producto_editando = 0
    /\ archivos = {disk.recs[k].archivo : k \in 1 .. Len(disk.recs)}
    /\ reloj = 0
    /\ fallos = 0
    /\ ultima = Hecho("inicio", 0, "ok")
    /\ TaxIdle
    /\ GenIdle
    /\ MosIdle

Relojes == {t \in {reloj, reloj + 1} : t <= MaxReloj}

Next ==
    \/ \E item \in ItemsEntrada : AnadirArticulo(item)
    \/ \E i \in 1 .. MaxProductos : MarcarProducto(i)
    \/ CancelarProducto
    \/ \E item \in ItemsEntrada : editar_producto(item)
    \/ \E i \in 1 .. MaxProductos : eliminar_producto(i)
    \/ \E c \in Clientes, d \in Descuentos, t \in Relojes, pdf \in BOOLEAN,
          g \in Guardados(facturas) \cup Guardados(Append(facturas, 0)) :
          GenerarFactura(c, d, t, pdf, g)
    \/ \E k \in 1 .. MaxFacturas : EditarFactura(k)
    \/ \E k \in 1 .. MaxFacturas, rm_falla \in BOOLEAN, g \in Guardados(facturas) :
          EliminarFactura(k, rm_falla, g)
    \/ NuevaFactura

Spec == Init /\ [][Next]_vars

\* ------------------------------------------- the tax round trip, step by step
AppIdle ==
    /\ disk = [recs |-> <<>>, completo |-> TRUE]
    /\ facturas = <<>>
    /\ listas = [r \in Refs |-> <<>>]
    /\ productos = 0
    /\ factura_editando = 0
    /\ producto_editando = 0
    /\ archivos = {}
    /\ reloj = 0
    /\ fallos = 0
    /\ ultima = Hecho("inicio", 0, "ok")

InitIgv ==
    /\ AppIdle
    /\ GenIdle
    /\ MosIdle
    /\ t_pc = "total"
    /\ t_total \in 0 .. MaxCentimos
    /\ t_base = 0
    /\ t_igv = 0

PasoBase ==
    /\ t_pc = "total"
    /\ t_base' = calcular_base_imponible(t_total)
    /\ t_pc' = "base"
    /\ UNCHANGED <<t_total, t_igv, appvars, genvars, mosvars>>

PasoIgv ==
    /\ t_pc = "base"
    /\ t_igv' = calcular_igv(t_base)
    /\ t_pc' = "igv"
    /\ UNCHANGED <<t_total, t_base, appvars, genvars, mosvars>>

NextIgv ==
    \/ PasoBase
    \/ PasoIgv

SpecIgv == InitIgv /\ [][NextIgv]_vars

\* --------------------------------- the totals of generar_factura, lines 103-121
ItemsCalculo ==
    {<<"Consulting", 2, 10000>>, <<"Soporte", 1, 150>>, <<"Cable", 3, 333>>,
     <<"Tornillo", 7, 1>>}

DescuentosCalculo == {0, 50, 30000}

ListasCalculo ==
    UNION {[1 .. n -> ItemsCalculo] : n \in 1 .. MaxLineas}

InitTotales ==
    /\ AppIdle
    /\ TaxIdle
    /\ g_pc = "bucle"
    /\ g_productos \in ListasCalculo
    /\ g_descuento \in DescuentosCalculo
    /\ g_i = 0
    /\ g_subtotal = 0
    /\ g_igv = 0
    /\ g_total = 0
    /\ m_pc = "bucle"
    /\ m_i = 0
    /\ m_cantidad = 0
    /\ m_precio = 0
    /\ m_subtotal = 0
    /\ m_igv = 0
    /\ m_total = 0

\* only the line at hand counts: what the on-screen subtotal of main() does
SoloLinea(subtotal, item) == calcular_base_imponible(item[3] * item[2])

\* one turn of the loop: total_linea, its base, subtotal += base
SumarLinea(subtotal, item) == subtotal + calcular_base_imponible(item[3] * item[2])

GF_Linea ==
    /\ g_pc = "bucle"
    /\ g_i < Len(g_productos)
    /\ g_i' = g_i + 1
    /\ g_subtotal' = SumarLinea(g_subtotal, g_productos[g_i + 1])
    /\ UNCHANGED <<g_pc, g_productos, g_descuento, g_igv, g_total, appvars, taxvars, mosvars>>

GF_Totales ==
    /\ g_pc = "bucle"
    /\ g_i = Len(g_productos)
    /\ g_igv' = calcular_igv(g_subtotal)
    /\ g_total' = g_subtotal + calcular_igv(g_subtotal) - g_descuento
    /\ g_pc' = "hecho"
    /\ UNCHANGED <<g_productos, g_descuento, g_i, g_subtotal, appvars, taxvars, mosvars>>

\* one turn of the loop over the product list, lines 447-474: it binds the loop
\* variables cantidad and precio to the row and prints the row
MostrarLinea ==
    /\ m_pc = "bucle"
    /\ m_i < Len(g_productos)
    /\ m_i' = m_i + 1
    /\ m_cantidad' = g_productos[m_i + 1][2]
    /\ m_precio' = g_productos[m_i + 1][3]
    /\ UNCHANGED <<m_pc, m_subtotal, m_igv, m_total, appvars, taxvars, genvars>>

\* lines 478-482: subtotal = Decimal('0'), then the base of precio * cantidad as
\* the loop left them
SubtotalTrasBucle(cantidad, precio) ==
    0 + calcular_base_imponible(precio * cantidad)

\* the totals under the list, lines 476-499; the discount field takes no value
\* above the subtotal shown (max_value)
MostrarTotales ==
    /\ m_pc = "bucle"
    /\ m_i = Len(g_productos)
    /\ g_descuento <= SubtotalTrasBucle(m_cantidad, m_precio)
    /\ m_subtotal' = SubtotalTrasBucle(m_cantidad, m_precio)
    /\ m_igv' = calcular_igv(m_subtotal')
    /\ m_total' = m_subtotal' + m_igv' - g_descuento
    /\ m_pc' = "hecho"
    /\ UNCHANGED <<m_i, m_cantidad, m_precio, appvars, taxvars, genvars>>

NextTotales ==
    \/ GF_Linea
    \/ GF_Totales
    \/ MostrarLinea
    \/ MostrarTotales

SpecTotales == InitTotales /\ [][NextTotales]_vars

\* ------------------------------------------------------------------ claims
\* the stored records of the session other than those with id i, by value
Otras(fs, ls, i) == {Valor(fs[k], ls) : k \in {j \in 1 .. Len(fs) : fs[j].id # i}}

ConId(fs, i) == {k \in 1 .. Len(fs) : fs[k].id = i}

Termino == {"ok", "error_guardar"}

\* C1: in every reachable state no two records of the in-memory invoice
\* collection share an id.
C1_IdsUnicos ==
    \A j, k \in 1 .. Len(facturas) : j # k => facturas[j].id # facturas[k].id

\* C1 witness: a finalize has run and the collection holds two records.
C1_Testigo ==
    /\ ultima.accion = "generar"
    /\ ultima.resultado \in Termino
    /\ Len(facturas) = 2

\* C2: a finalize that adds a record without replacing one of the same id gives
\* it the id 1 on an empty store and max(existing ids) + 1 otherwise, never an
\* id below the current maximum.
C2_IdSiguiente ==
    [][(/\ ultima'.accion = "generar"
        /\ ultima'.resultado \in Termino
        /\ ConId(facturas, ultima'.id) = {})
       => /\ facturas = <<>> => ultima'.id = 1
          /\ facturas # <<>> =>
                /\ \A k \in 1 .. Len(facturas) : facturas[k].id < ultima'.id
                /\ \E k \in 1 .. Len(facturas) : facturas[k].id + 1 = ultima'.id]_vars

\* C3: a finalize while invoice i is being edited leaves the number of records
\* as it was, leaves exactly one record with id i, which carries the draft, and
\* leaves every record of another id unchanged.
C3_ReemplazoEnSitio ==
    [][(/\ ultima'.accion = "generar"
        /\ ultima'.resultado \in Termino
        /\ factura_editando # 0)
       => /\ Len(facturas') = Len(facturas)
          /\ Cardinality(ConId(facturas', factura_editando)) = 1
          /\ \A k \in ConId(facturas', factura_editando) :
                /\ Valor(facturas'[k], listas').productos = Borrador
                /\ facturas'[k].archivo = <<factura_editando, reloj'>>
          /\ Otras(facturas', listas', factura_editando)
                = Otras(facturas, listas, factura_editando)]_vars

AccionesBorrador == {"editar", "anadir", "marcar", "cancelar", "editar_producto",
                     "eliminar_producto"}

\* C4: the draft actions change no record of the store, in memory or in the
\* snapshot, and the items of an invoice in the snapshot change only by a
\* finalize of that id.
C4_BorradorAparte ==
    [][/\ ultima'.accion \in AccionesBorrador
            => /\ Valores(facturas', listas') = Valores(facturas, listas)
               /\ disk' = disk
       /\ \A j \in 1 .. Len(disk.recs), k \in 1 .. Len(disk'.recs) :
            (/\ disk.completo /\ disk'.completo
             /\ disk.recs[j].id = disk'.recs[k].id
             /\ disk.recs[j].productos # disk'.recs[k].productos)
            => /\ ultima'.accion = "generar"
               /\ ultima'.id = disk.recs[j].id]_vars

\* C5: when generar_factura fails during a finalize, the in-memory collection
\* and the snapshot are what they were before the action, for a new invoice and
\* for an edit.
C5_FalloPdfSinCambio ==
    [][ultima'.resultado = "error_pdf"
       => /\ facturas' = facturas
          /\ Valores(facturas', listas') = Valores(facturas, listas)
          /\ disk' = disk]_vars

\* C5 witness: rendering has failed while a stored invoice was being edited.
C5_Testigo ==
    /\ ultima.accion = "generar"
    /\ ultima.resultado = "error_pdf"
    /\ ConId(facturas, factura_editando) # {}

\* C6: when guardar_facturas fails during a finalize or a delete, the in-memory
\* collection holds exactly the records it held before the action.
C6_FalloGuardarSinCambio ==
    [][ultima'.resultado = "error_guardar"
       => Valores(facturas', listas') = Valores(facturas, listas)]_vars

C10_SnapshotIntegro ==
    [][/\ disk'.completo
       /\ \/ disk' = disk
          \/ disk'.recs = Valores(facturas', listas')]_vars

\* r is num/den rounded half up to a whole centimo (num >= 0, den > 0)
EsMitadArriba(r, num, den) ==
    /\ 2 * den * r <= 2 * num + den
    /\ 2 * num + den < 2 * den * (r + 1)

Abs(x) == IF x >= 0 THEN x ELSE -x

\* C8: for every tax-inclusive amount T of 0 .. MaxCentimos centimos, the base
\* rounded from T/1.18 plus the tax rounded from base*0.18 is within one centimo
\* of T, each being the half-up rounding to two decimals.
C8_IdaYVuelta ==
    /\ t_pc \in {"base", "igv"} => EsMitadArriba(t_base, t_total * 100, 118)
    /\ t_pc = "igv" =>
          /\ EsMitadArriba(t_igv, t_base * 18, 100)
          /\ Abs(t_base + t_igv - t_total) <= 1

\* C8 witness: both steps have run on an amount the roundings do not give back.
C8_Testigo ==
    /\ t_pc = "igv"
    /\ t_total > 0
    /\ Abs(t_base + t_igv - t_total) = 1

RECURSIVE SumaBases(_)
\* the sum over all the items of the base of quantity * unit price, each line
\* rounded by itself
SumaBases(items) ==
    IF items = <<>> THEN 0
    ELSE (CHOOSE r \in 0 .. (items[1][2] * items[1][3]) :
             EsMitadArriba(r, items[1][2] * items[1][3] * 100, 118))
         + SumaBases(Tail(items))

\* C9: the totals generar_factura prints are subtotal = the sum over all items
\* of the line bases, tax = subtotal*0.18 rounded half up, total = subtotal + tax
\* - discount without clamping; one item (2, 100.00) with no discount gives
\* 169.49, 30.51 and 200.00.
C9_Totales ==
    g_pc = "hecho" =>
        /\ g_subtotal = SumaBases(g_productos)
        /\ EsMitadArriba(g_igv, g_subtotal * 18, 100)
        /\ g_total = g_subtotal + g_igv - g_descuento
        /\ (Len(g_productos) = 1 /\ g_productos[1][2] = 2 /\ g_productos[1][3] = 10000
            /\ g_descuento = 0)
              => (g_subtotal = 16949 /\ g_igv = 3051 /\ g_total = 20000)

\* C9 witness: the totals of three lines whose sum of bases differs from the base
\* of the summed lines, with a discount above subtotal plus tax.
C9_Testigo ==
    /\ g_pc = "hecho"
    /\ Len(g_productos) = 3
    /\ g_total < 0
    /\ g_subtotal # calcular_base_imponible(
            g_productos[1][2] * g_productos[1][3] + g_productos[2][2] * g_productos[2][3]
            + g_productos[3][2] * g_productos[3][3])

\* the single item (2, 100.00) without discount has been rendered
C9_Ejemplo ==
    /\ g_pc = "hecho"
    /\ g_productos = <<<<"Consulting", 2, 10000>>>>
    /\ g_descuento = 0
    /\ g_total = 20000

AccionesUsuario == {"editar", "anadir", "editar_producto", "eliminar_producto",
                    "generar", "eliminar"}

\* C11: after every user action that runs to completion (start-edit, add, edit
\* or remove a draft item, finalize, delete) the snapshot holds the records of
\* the in-memory collection, in the same order with the same field values; no
\* write of the snapshot having failed so far.
C11_EspejoTrasAccion ==
    [][(/\ ultima'.accion \in AccionesUsuario
        /\ ultima'.resultado = "ok"
        /\ fallos' = 0)
       => /\ disk'.completo
          /\ disk'.recs = Valores(facturas', listas')]_vars

\* C12: for every non-empty list of draft items and every discount the field
\* accepts, the subtotal, tax and total shown on screen equal the subtotal, tax
\* and total the renderer computes for the same items and discount.
C12_MostradoIgualPdf ==
    (g_pc = "hecho" /\ m_pc = "hecho")
        => /\ m_subtotal = g_subtotal
           /\ m_igv = g_igv
           /\ m_total = g_total

ArchivosExisten(recs) == \A k \in 1 .. Len(recs) : recs[k].archivo \in archivos

\* C13: as long as no write of the snapshot has failed (a failed rendering
\* leaves the store and the artifacts as they were), every record of the
\* collection in memory and every record of the snapshot on disk has an archivo
\* that names an existing artifact file.
C13_ArchivoExiste ==
    fallos = 0 => /\ ArchivosExisten(facturas)
                  /\ ArchivosExisten(disk.recs)

\* C13 witness: without any failure, a stored invoice has been deleted with its
\* artifact and invoice 3 has been finalized afterwards, both
\* the collection and the snapshot holding records.
C13_Testigo ==
    /\ fallos = 0
    /\ ultima = Hecho("generar", 3, "ok")
    /\ <<1, 0>> \notin archivos
    /\ <<3, 0>> \in archivos
    /\ facturas # <<>>
    /\ disk.recs # <<>>

====
